---- MODULE Spec2Model ----
(***************************************************************************)
(* A model of push.py: parse a KEY=VALUE file, then upsert every entry     *)
(* into SSM Parameter Store or Secrets Manager.                            *)
(*                                                                         *)
(* Strings are sequences of one-character strings, so that strip, split,   *)
(* startswith, endswith, slicing, lower() and "in" are computed character  *)
(* by character as Python computes them.                                   *)
(***************************************************************************)
EXTENDS Integers, Sequences, FiniteSets, TLC

VARIABLES
    pc,          \* position of the process in main()
    fileExists,  \* env_path.exists()
    content,     \* the lines of the file at env_path
    target,      \* args.target
    line_num,    \* number of lines parse_env_file has consumed
    env_vars,    \* the dict built by parse_env_file, in insertion order
    warnings,    \* line numbers printed as "Warning: Invalid line"
    session,     \* "none", "ok" or "failed": boto3.Session / session.client
    idx,         \* position of the for loop in env_vars.items()
    exists,      \* parameter_exists / secret_exists of the current item
    store,       \* the backing store: name -> entry
    calls,       \* the SDK calls issued so far, with their outcome
    reports,     \* the "Pushed" / "Failed to push" lines printed so far
    exitCode     \* -1 while running, then the exit status of the process

vars == <<pc, fileExists, content, target, line_num, env_vars, warnings,
          session, idx, exists, store, calls, reports, exitCode>>

(***************************************************************************)
(* Bounds of the model.                                                    *)
(***************************************************************************)
MaxLines == 3       \* lines of a file in Spec
MaxParseLines == 3  \* lines of a file in SpecParse
MaxValLen == 3      \* characters after "k=" in SpecQuote

(***************************************************************************)
(* Characters and Python's string operations.                              *)
(***************************************************************************)
DQ == "\""
SQ == "'"

Whitespace == {" ", "\t", "\n", "\r"}

RECURSIVE LStrip(_)
LStrip(s) ==
    IF s # <<>> /\ Head(s) \in Whitespace THEN LStrip(Tail(s)) ELSE s

RECURSIVE RStrip(_)
RStrip(s) ==
    IF s # <<>> /\ s[Len(s)] \in Whitespace
    THEN RStrip(SubSeq(s, 1, Len(s) - 1))
    ELSE s

\* str.strip()
Strip(s) == RStrip(LStrip(s))

\* str.startswith(c) and str.endswith(c) for a one-character c
StartsWith(s, c) == s # <<>> /\ Head(s) = c
EndsWith(s, c) == s # <<>> /\ s[Len(s)] = c

\* c in s, for a one-character c
Contains(s, c) == \E i \in 1..Len(s) : s[i] = c

\* the index of the first c in s (s contains c)
FirstIndex(s, c) ==
    CHOOSE i \in 1..Len(s) : s[i] = c /\ \A j \in 1..(i - 1) : s[j] # c

\* s.split(c, 1) when c is in s: the text before and after the first c
SplitFirst(s, c) ==
    LET i == FirstIndex(s, c)
    IN  <<SubSeq(s, 1, i - 1), SubSeq(s, i + 1, Len(s))>>

\* s[1:-1]
Slice1m1(s) == SubSeq(s, 2, Len(s) - 1)

\* sub in s, for strings
IsSubstring(sub, s) ==
    \E i \in 0..(Len(s) - Len(sub)) : SubSeq(s, i + 1, i + Len(sub)) = sub

UpperChars ==
    <<"A", "B", "C", "D", "E", "F", "G", "H", "I", "J", "K", "L", "M",
      "N", "O", "P", "Q", "R", "S", "T", "U", "V", "W", "X", "Y", "Z">>
LowerChars ==
    <<"a", "b", "c", "d", "e", "f", "g", "h", "i", "j", "k", "l", "m",
      "n", "o", "p", "q", "r", "s", "t", "u", "v", "w", "x", "y", "z">>

LowerChar(c) ==
    IF \E i \in 1..Len(UpperChars) : UpperChars[i] = c
    THEN LowerChars[CHOOSE i \in 1..Len(UpperChars) : UpperChars[i] = c]
    ELSE c

\* str.lower()
Lower(s) == [i \in 1..Len(s) |-> LowerChar(s[i])]

(***************************************************************************)
(* The dict env_vars: a sequence of entries in insertion order.            *)
(***************************************************************************)
DictHas(d, k) == \E i \in 1..Len(d) : d[i].key = k

\* d[k] = v: a new key is appended, an existing key keeps its position
DictSet(d, k, v) ==
    IF DictHas(d, k)
    THEN [i \in 1..Len(d) |-> IF d[i].key = k THEN [key |-> k, value |-> v] ELSE d[i]]
    ELSE Append(d, [key |-> k, value |-> v])

(***************************************************************************)
(* parse_env_file                                                          *)
(***************************************************************************)
\* "Remove quotes if present"
Unquote(value) ==
    IF StartsWith(value, DQ) /\ EndsWith(value, DQ) THEN Slice1m1(value)
    ELSE IF StartsWith(value, SQ) /\ EndsWith(value, SQ) THEN Slice1m1(value)
    ELSE value

\* the stripped line is skipped: empty or a comment
IsSkipped(line) == line = <<>> \/ StartsWith(line, "#")

\* key and value of a stripped line that contains "="
LineKey(line) == Strip(SplitFirst(line, "=")[1])
LineValue(line) == Unquote(Strip(SplitFirst(line, "=")[2]))

\* a variant that stores first-seen values: a repeated key keeps its first value
ParseOneLineFirstWins(d, w, n, raw) ==
    LET line == Strip(raw)
    IN  IF IsSkipped(line) THEN [d |-> d, w |-> w]
        ELSE IF Contains(line, "=")
        THEN [d |-> IF DictHas(d, LineKey(line)) THEN d
                    ELSE DictSet(d, LineKey(line), LineValue(line)),
              w |-> w]
        ELSE [d |-> d, w |-> Append(w, n)]

\* a variant that warns about a line without "=" and stores it as a key all the same
ParseOneLineKeepInvalid(d, w, n, raw) ==
    LET line == Strip(raw)
    IN  IF IsSkipped(line) THEN [d |-> d, w |-> w]
        ELSE IF Contains(line, "=")
        THEN [d |-> DictSet(d, LineKey(line), LineValue(line)), w |-> w]
        ELSE [d |-> DictSet(d, line, <<>>), w |-> Append(w, n)]

\* the body of the for loop for raw line n: the dict and the warnings after it
ParseOneLine(d, w, n, raw) ==
    LET line == Strip(raw)
    IN  IF IsSkipped(line) THEN [d |-> d, w |-> w]
        ELSE IF Contains(line, "=")
        THEN [d |-> DictSet(d, LineKey(line), LineValue(line)), w |-> w]
        ELSE [d |-> d, w |-> Append(w, n)]

\* the dict parse_env_file returns for a file made of these lines
RECURSIVE ParseFrom(_, _, _)
ParseFrom(d, n, lines) ==
    IF n > Len(lines) THEN d
    ELSE ParseFrom(ParseOneLine(d, <<>>, n, lines[n]).d, n + 1, lines)

ParseResult(lines) == ParseFrom(<<>>, 1, lines)

RunVars == <<target, session, idx, exists, store, calls, reports>>

\* env_path does not exist: print the error and sys.exit(1)
ParseFileMissing ==
    /\ pc = "parse"
    /\ ~fileExists
    /\ pc' = "exited"
    /\ exitCode' = 1
    /\ UNCHANGED <<fileExists, content, line_num, env_vars, warnings, RunVars>>

\* open(env_path)
ParseOpen ==
    /\ pc = "parse"
    /\ fileExists
    /\ pc' = "lines"
    /\ UNCHANGED <<fileExists, content, line_num, env_vars, warnings, RunVars, exitCode>>

\* one iteration of "for line_num, line in enumerate(f, 1)"
ParseLine ==
    /\ pc = "lines"
    /\ line_num < Len(content)
    /\ LET r == ParseOneLine(env_vars, warnings, line_num + 1, content[line_num + 1])
       IN  /\ env_vars' = r.d
           /\ warnings' = r.w
    /\ line_num' = line_num + 1
    /\ UNCHANGED <<pc, fileExists, content, RunVars, exitCode>>

\* the file is exhausted: return env_vars
ParseReturn ==
    /\ pc = "lines"
    /\ line_num = Len(content)
    /\ pc' = "parsed"
    /\ UNCHANGED <<fileExists, content, line_num, env_vars, warnings, RunVars, exitCode>>

NextParse == ParseFileMissing \/ ParseOpen \/ ParseLine \/ ParseReturn

(***************************************************************************)
(* main: arguments, and the check between parsing and pushing              *)
(***************************************************************************)
\* args.profile and args.tag
ProfileName == <<"d", "e", "v">>
TagArg == <<"a", "p", "p">>

\* a variant without the exit: an empty mapping is handed to the dispatcher
MainNoVarsGoesOn ==
    /\ pc = "parsed"
    /\ env_vars = <<>>
    /\ pc' = "setup"
    /\ UNCHANGED <<fileExists, content, line_num, env_vars, warnings, RunVars, exitCode>>

\* "if not env_vars": print the message and sys.exit(1)
MainNoVars ==
    /\ pc = "parsed"
    /\ env_vars = <<>>
    /\ pc' = "exited"
    /\ exitCode' = 1
    /\ UNCHANGED <<fileExists, content, line_num, env_vars, warnings, RunVars>>

\* env_vars is not empty: call push_to_ssm or push_to_secrets_manager
MainPush ==
    /\ pc = "parsed"
    /\ env_vars # <<>>
    /\ target \in {"ssm", "secretsmanager"}
    /\ pc' = "setup"
    /\ UNCHANGED <<fileExists, content, line_num, env_vars, warnings, RunVars, exitCode>>

(***************************************************************************)
(* What the two dispatchers build for one item                             *)
(***************************************************************************)
\* parameter_name = f"/{tag}/{key}"
ParameterName(tag, key) == <<"/">> \o tag \o <<"/">> \o key

\* secret_name = f"{tag}/{key}"
SecretName(tag, key) == tag \o <<"/">> \o key

ItemName(tgt, key) ==
    IF tgt = "ssm" THEN ParameterName(TagArg, key) ELSE SecretName(TagArg, key)

SecretMarkers ==
    << <<"p", "a", "s", "s", "w", "o", "r", "d">>,
       <<"s", "e", "c", "r", "e", "t">>,
       <<"k", "e", "y">>,
       <<"t", "o", "k", "e", "n">> >>

\* a variant that matches the markers against the key as written, without lower()
ParamTypeCaseSensitive(key) ==
    IF \E m \in 1..Len(SecretMarkers) : IsSubstring(SecretMarkers[m], key)
    THEN "SecureString"
    ELSE "String"

\* param_type
ParamType(key) ==
    IF \E m \in 1..Len(SecretMarkers) : IsSubstring(SecretMarkers[m], Lower(key))
    THEN "SecureString"
    ELSE "String"

\* secret_string = f'{{"{key}": "{value}"}}'
SecretString(key, value) ==
    <<"{", DQ>> \o key \o <<DQ, ":", " ", DQ>> \o value \o <<DQ, "}">>

\* tags
Tags(profile, tag) ==
    << [Key |-> "Source", Value |-> <<".", "e", "n", "v">>],
       [Key |-> "Profile", Value |-> profile],
       [Key |-> "Tag", Value |-> tag] >>

\* One SDK call as issued. An argument the call does not pass is recorded as
\* Type "absent", Overwrite FALSE, Tags <<>>, Value <<>>.
Call(op, name, value, type, overwrite, tags, result) ==
    [op |-> op, Name |-> name, Value |-> value, Type |-> type,
     Overwrite |-> overwrite, Tags |-> tags, result |-> result]

Report(kind, name) == [kind |-> kind, name |-> name]

\* the store after a successful create of name
StoreCreate(st, name, value, type, tags) ==
    [n \in DOMAIN st \cup {name} |->
        IF n = name THEN [Value |-> value, Type |-> type, Tags |-> tags] ELSE st[n]]

\* the store after a successful update of name: the tags stay as they were
StoreUpdate(st, name, value, type) ==
    [n \in DOMAIN st |->
        IF n = name THEN [Value |-> value, Type |-> type, Tags |-> st[n].Tags] ELSE st[n]]

ParseVars == <<fileExists, content, line_num, env_vars, warnings>>

(***************************************************************************)
(* push_to_ssm                                                             *)
(***************************************************************************)
\* boto3.Session(...), session.client("ssm") succeed
SsmSetupOk ==
    /\ pc = "setup" /\ target = "ssm"
    /\ session' = "ok"
    /\ idx' = 1
    /\ pc' = "loop"
    /\ UNCHANGED <<ParseVars, target, exists, store, calls, reports, exitCode>>

\* an exception before the loop: "Failed to connect to AWS SSM", sys.exit(1)
SsmSetupFail ==
    /\ pc = "setup" /\ target = "ssm"
    /\ session' = "failed"
    /\ pc' = "exited"
    /\ exitCode' = 1
    /\ UNCHANGED <<ParseVars, target, idx, exists, store, calls, reports>>

\* a variant that takes every exception of get_parameter for "not found"
SsmCheckAnyErrorIsAbsent ==
    /\ pc = "loop" /\ target = "ssm"
    /\ idx <= Len(env_vars)
    /\ LET name == ParameterName(TagArg, env_vars[idx].key)
       IN  \E raised \in BOOLEAN :
             /\ exists' = (~raised /\ name \in DOMAIN store)
             /\ calls' = Append(calls, Call("get_parameter", name, <<>>, "absent", FALSE, <<>>,
                                            IF raised THEN "error"
                                            ELSE IF name \in DOMAIN store THEN "ok" ELSE "notfound"))
             /\ pc' = "write"
             /\ UNCHANGED <<reports, idx>>
    /\ UNCHANGED <<ParseVars, target, session, store, exitCode>>

\* a variant that tries the same item again after a failed get_parameter
SsmCheckRetries ==
    /\ pc = "loop" /\ target = "ssm"
    /\ idx <= Len(env_vars)
    /\ LET name == ParameterName(TagArg, env_vars[idx].key)
       IN  \E raised \in BOOLEAN :
             IF raised
             THEN /\ calls' = Append(calls, Call("get_parameter", name, <<>>, "absent", FALSE, <<>>, "error"))
                  /\ reports' = Append(reports, Report("failed", name))
                  /\ UNCHANGED <<pc, exists, idx>>
             ELSE /\ exists' = (name \in DOMAIN store)
                  /\ calls' = Append(calls, Call("get_parameter", name, <<>>, "absent", FALSE, <<>>,
                                                 IF name \in DOMAIN store THEN "ok" ELSE "notfound"))
                  /\ pc' = "write"
                  /\ UNCHANGED <<reports, idx>>
    /\ UNCHANGED <<ParseVars, target, session, store, exitCode>>

\* ssm.get_parameter(Name=parameter_name)
SsmCheck ==
    /\ pc = "loop" /\ target = "ssm"
    /\ idx <= Len(env_vars)
    /\ LET name == ParameterName(TagArg, env_vars[idx].key)
       IN  \E raised \in BOOLEAN :
             IF raised
             THEN \* any exception but ParameterNotFound: the outer handler
                  /\ calls' = Append(calls, Call("get_parameter", name, <<>>, "absent", FALSE, <<>>, "error"))
                  /\ reports' = Append(reports, Report("failed", name))
                  /\ idx' = idx + 1
                  /\ UNCHANGED <<pc, exists>>
             ELSE /\ exists' = (name \in DOMAIN store)
                  /\ calls' = Append(calls, Call("get_parameter", name, <<>>, "absent", FALSE, <<>>,
                                                 IF name \in DOMAIN store THEN "ok" ELSE "notfound"))
                  /\ pc' = "write"
                  /\ UNCHANGED <<reports, idx>>
    /\ UNCHANGED <<ParseVars, target, session, store, exitCode>>

\* a variant that passes Tags on the update as well
SsmWriteTagsAlways ==
    /\ pc = "write" /\ target = "ssm"
    /\ LET key == env_vars[idx].key
           value == env_vars[idx].value
           name == ParameterName(TagArg, key)
           param_type == ParamType(key)
           tags == Tags(ProfileName, TagArg)
       IN  \E raised \in BOOLEAN :
             /\ calls' = Append(calls,
                    Call("put_parameter", name, value, param_type, exists, tags,
                         IF raised THEN "error" ELSE "ok"))
             /\ store' = IF raised THEN store
                         ELSE StoreCreate(store, name, value, param_type, tags)
             /\ reports' = Append(reports, Report(IF raised THEN "failed" ELSE "pushed", name))
    /\ idx' = idx + 1
    /\ pc' = "loop"
    /\ UNCHANGED <<ParseVars, target, session, exists, exitCode>>

\* ssm.put_parameter(...), on either branch of "if parameter_exists"
SsmWrite ==
    /\ pc = "write" /\ target = "ssm"
    /\ LET key == env_vars[idx].key
           value == env_vars[idx].value
           name == ParameterName(TagArg, key)
           param_type == ParamType(key)
           tags == Tags(ProfileName, TagArg)
       IN  \E raised \in BOOLEAN :
             /\ calls' = Append(calls,
                    IF exists
                    THEN Call("put_parameter", name, value, param_type, TRUE, <<>>,
                              IF raised THEN "error" ELSE "ok")
                    ELSE Call("put_parameter", name, value, param_type, FALSE, tags,
                              IF raised THEN "error" ELSE "ok"))
             /\ store' = IF raised THEN store
                         ELSE IF exists THEN StoreUpdate(store, name, value, param_type)
                         ELSE StoreCreate(store, name, value, param_type, tags)
             /\ reports' = Append(reports, Report(IF raised THEN "failed" ELSE "pushed", name))
    /\ idx' = idx + 1
    /\ pc' = "loop"
    /\ UNCHANGED <<ParseVars, target, session, exists, exitCode>>

\* a variant whose exit status reports the failed items
SsmDoneCountsFailures ==
    /\ pc = "loop" /\ target = "ssm"
    /\ idx > Len(env_vars)
    /\ pc' = "done"
    /\ exitCode' = IF \E r \in 1..Len(reports) : reports[r].kind = "failed" THEN 1 ELSE 0
    /\ UNCHANGED <<ParseVars, RunVars>>

\* the loop is over: the summary is printed and push_to_ssm returns
SsmDone ==
    /\ pc = "loop" /\ target = "ssm"
    /\ idx > Len(env_vars)
    /\ pc' = "done"
    /\ exitCode' = 0
    /\ UNCHANGED <<ParseVars, RunVars>>

(***************************************************************************)
(* push_to_secrets_manager                                                 *)
(***************************************************************************)
\* boto3.Session(...), session.client("secretsmanager") succeed
SmSetupOk ==
    /\ pc = "setup" /\ target = "secretsmanager"
    /\ session' = "ok"
    /\ idx' = 1
    /\ pc' = "loop"
    /\ UNCHANGED <<ParseVars, target, exists, store, calls, reports, exitCode>>

\* an exception before the loop: "Failed to connect to AWS Secrets Manager", sys.exit(1)
SmSetupFail ==
    /\ pc = "setup" /\ target = "secretsmanager"
    /\ session' = "failed"
    /\ pc' = "exited"
    /\ exitCode' = 1
    /\ UNCHANGED <<ParseVars, target, idx, exists, store, calls, reports>>

\* a variant in which an exception of describe_secret ends the run
SmCheckAborts ==
    /\ pc = "loop" /\ target = "secretsmanager"
    /\ idx <= Len(env_vars)
    /\ LET name == SecretName(TagArg, env_vars[idx].key)
       IN  \E raised \in BOOLEAN :
             IF raised
             THEN /\ calls' = Append(calls, Call("describe_secret", name, <<>>, "absent", FALSE, <<>>, "error"))
                  /\ reports' = Append(reports, Report("failed", name))
                  /\ pc' = "exited"
                  /\ exitCode' = 1
                  /\ UNCHANGED <<idx, exists>>
             ELSE /\ exists' = (name \in DOMAIN store)
                  /\ calls' = Append(calls, Call("describe_secret", name, <<>>, "absent", FALSE, <<>>,
                                                 IF name \in DOMAIN store THEN "ok" ELSE "notfound"))
                  /\ pc' = "write"
                  /\ UNCHANGED <<reports, idx, exitCode>>
    /\ UNCHANGED <<ParseVars, target, session, store>>

\* secretsmanager.describe_secret(SecretId=secret_name)
SmCheck ==
    /\ pc = "loop" /\ target = "secretsmanager"
    /\ idx <= Len(env_vars)
    /\ LET name == SecretName(TagArg, env_vars[idx].key)
       IN  \E raised \in BOOLEAN :
             IF raised
             THEN \* any exception but ResourceNotFoundException: the outer handler
                  /\ calls' = Append(calls, Call("describe_secret", name, <<>>, "absent", FALSE, <<>>, "error"))
                  /\ reports' = Append(reports, Report("failed", name))
                  /\ idx' = idx + 1
                  /\ UNCHANGED <<pc, exists>>
             ELSE /\ exists' = (name \in DOMAIN store)
                  /\ calls' = Append(calls, Call("describe_secret", name, <<>>, "absent", FALSE, <<>>,
                                                 IF name \in DOMAIN store THEN "ok" ELSE "notfound"))
                  /\ pc' = "write"
                  /\ UNCHANGED <<reports, idx>>
    /\ UNCHANGED <<ParseVars, target, session, store, exitCode>>

\* secretsmanager.update_secret(...) or secretsmanager.create_secret(...)
SmWrite ==
    /\ pc = "write" /\ target = "secretsmanager"
    /\ LET key == env_vars[idx].key
           value == env_vars[idx].value
           name == SecretName(TagArg, key)
           secret_string == SecretString(key, value)
           tags == Tags(ProfileName, TagArg)
       IN  \E raised \in BOOLEAN :
             /\ calls' = Append(calls,
                    IF exists
                    THEN Call("update_secret", name, secret_string, "absent", FALSE, <<>>,
                              IF raised THEN "error" ELSE "ok")
                    ELSE Call("create_secret", name, secret_string, "absent", FALSE, tags,
                              IF raised THEN "error" ELSE "ok"))
             /\ store' = IF raised THEN store
                         ELSE IF exists THEN StoreUpdate(store, name, secret_string, store[name].Type)
                         ELSE StoreCreate(store, name, secret_string, "absent", tags)
             /\ reports' = Append(reports, Report(IF raised THEN "failed" ELSE "pushed", name))
    /\ idx' = idx + 1
    /\ pc' = "loop"
    /\ UNCHANGED <<ParseVars, target, session, exists, exitCode>>

\* the loop is over: the summary is printed and push_to_secrets_manager returns
SmDone ==
    /\ pc = "loop" /\ target = "secretsmanager"
    /\ idx > Len(env_vars)
    /\ pc' = "done"
    /\ exitCode' = 0
    /\ UNCHANGED <<ParseVars, RunVars>>

(***************************************************************************)
(* Inputs and specifications                                               *)
(***************************************************************************)
SeqsUpTo(S, n) == UNION {[1..k -> S] : k \in 0..n}

\* the lines a file of Spec is made of
RunLines ==
    { <<"a", "=", "1">>,
      <<"a", "=", DQ, "2", DQ>>,
      <<"T", "o", "k", "e", "n", "=", "t">>,
      <<"D", "B", "_", "P", "A", "S", "S", "W", "O", "R", "D", " ", "=", " ", SQ, "p", SQ>>,
      <<"o", "o", "p", "s">> }

\* the keys whose items may be in the store before the run
StoreKeys == { <<"a">>, <<"T", "o", "k", "e", "n">> }

OldEntry == [Value |-> <<"o", "l", "d">>, Type |-> "String", Tags |-> <<>>]

InitRest ==
    /\ pc = "parse"
    /\ line_num = 0
    /\ env_vars = <<>>
    /\ warnings = <<>>
    /\ session = "none"
    /\ idx = 0
    /\ exists = FALSE
    /\ calls = <<>>
    /\ reports = <<>>
    /\ exitCode = -1

Init ==
    /\ fileExists \in BOOLEAN
    /\ content \in IF fileExists THEN SeqsUpTo(RunLines, MaxLines) ELSE {<<>>}
    /\ target \in {"ssm", "secretsmanager"}
    /\ \E present \in SUBSET StoreKeys :
         store = [n \in {ItemName(target, k) : k \in present} |-> OldEntry]
    /\ InitRest

Next ==
    \/ ParseFileMissing \/ ParseOpen \/ ParseLine \/ ParseReturn
    \/ MainNoVars \/ MainPush
    \/ SsmSetupOk \/ SsmSetupFail \/ SsmCheck \/ SsmWrite \/ SsmDone
    \/ SmSetupOk \/ SmSetupFail \/ SmCheck \/ SmWrite \/ SmDone

Spec == Init /\ [][Next]_vars

\* the lines a file of SpecParse is made of
ParseLineSet ==
    { <<>>,
      <<" ", " ">>,
      <<"#", "x", "=", "1">>,
      <<"x", "=", "1">>,
      <<" ", "x", " ", "=", " ", "2", " ">>,
      <<"y", "=", DQ, "#", DQ>>,
      <<"z", "=", "a", "=", "b">>,
      <<"x">>,
      <<" ", "o", "o", "p", "s", " ">> }

EmptyStore == [n \in {} |-> OldEntry]

InitParse ==
    /\ fileExists \in BOOLEAN
    /\ content \in IF fileExists THEN SeqsUpTo(ParseLineSet, MaxParseLines) ELSE {<<>>}
    /\ target = "ssm"
    /\ store = EmptyStore
    /\ InitRest

\* parse_env_file alone, on files of up to MaxParseLines lines
SpecParse == InitParse /\ [][NextParse]_vars

\* the characters a value of SpecQuote is made of
QuoteChars == {DQ, SQ, "a", " "}

InitQuote ==
    /\ fileExists \in BOOLEAN
    /\ content \in IF fileExists
                   THEN {<< <<"k", "=">> \o v >> : v \in SeqsUpTo(QuoteChars, MaxValLen)}
                   ELSE {<<>>}
    /\ target = "ssm"
    /\ store = EmptyStore
    /\ InitRest

\* parse_env_file alone, on one line k=<value> for every value of up to MaxValLen characters
SpecQuote == InitQuote /\ [][NextParse]_vars

(***************************************************************************)
(* Properties                                                              *)
(***************************************************************************)
IsQuote(c) == c = DQ \/ c = SQ

\* the text after "k=" on the single line of a SpecQuote file
QuoteInput == SubSeq(content[1], 3, Len(content[1]))

\* what the quote rule of the contract stores for a trimmed value: a pair of equal
\* quote characters at the two ends, being two distinct characters, is removed
PairStripped(t) ==
    IF Len(t) >= 2 /\ IsQuote(t[1]) /\ t[Len(t)] = t[1]
    THEN SubSeq(t, 2, Len(t) - 1)
    ELSE t

\* C6: parse_env_file removes exactly one leading and one trailing character from a
\* trimmed value that begins and ends with the same quote character as two distinct
\* characters, and stores every other trimmed value unchanged, a value that is a
\* single quote character included.
C6_QuotePairOnly ==
    (pc = "parsed" /\ fileExists) =>
        env_vars = << [key |-> <<"k">>, value |-> PairStripped(Strip(QuoteInput))] >>

\* a line that is neither blank nor a comment and contains no "="
IsInvalidLine(raw) == ~IsSkipped(Strip(raw)) /\ ~Contains(Strip(raw), "=")

\* a line that yields an entry
IsEntryLine(raw) == ~IsSkipped(Strip(raw)) /\ Contains(Strip(raw), "=")

WithoutInvalid(lines) == SelectSeq(lines, LAMBDA raw : ~IsInvalidLine(raw))

\* the numbers of the invalid lines among the first n lines, in increasing order
RECURSIVE InvalidLineNums(_, _)
InvalidLineNums(lines, n) ==
    IF n = 0 THEN <<>>
    ELSE IF IsInvalidLine(lines[n])
         THEN Append(InvalidLineNums(lines, n - 1), n)
         ELSE InvalidLineNums(lines, n - 1)

\* C7: a non-blank, non-comment line without "=" produces a warning and no entry,
\* and parsing continues: at every point of the parse, and in its result, the
\* mapping is the one obtained from the same lines with the invalid ones removed,
\* and the warnings are exactly the numbers of the invalid lines.
C7_InvalidLinesSkipped ==
    /\ fileExists => pc # "exited"
    /\ pc \in {"lines", "parsed"} =>
          /\ env_vars = ParseResult(WithoutInvalid(SubSeq(content, 1, line_num)))
          /\ warnings = InvalidLineNums(content, line_num)
    /\ pc = "parsed" => line_num = Len(content)

C7_Witness ==
    /\ pc = "parsed"
    /\ Len(content) = 3
    /\ IsEntryLine(content[1]) /\ IsInvalidLine(content[2]) /\ IsEntryLine(content[3])
    /\ Len(env_vars) = 2
    /\ warnings = <<2>>

IsCheck(c) == c.op \in {"get_parameter", "describe_secret"}
IsWrite(c) == c.op \in {"put_parameter", "update_secret", "create_secret"}

\* the text a write for (key, value) carries
Payload(tgt, key, value) == IF tgt = "ssm" THEN value ELSE SecretString(key, value)

EntryLines(lines) == {i \in 1..Len(lines) : IsEntryLine(lines[i])}
KeyAt(lines, i) == LineKey(Strip(lines[i]))
ValueAt(lines, i) == LineValue(Strip(lines[i]))
Min(S) == CHOOSE x \in S : \A y \in S : x <= y
Max(S) == CHOOSE x \in S : \A y \in S : y <= x

CallsFor(name, Kind(_)) == {c \in 1..Len(calls) : Kind(calls[c]) /\ calls[c].Name = name}

\* C10: a key on several valid lines yields one entry, at the position of the
\* key's first line, holding the value of its last line; the run issues at most
\* one existence check and one write for the key (exactly one check once the
\* loop is over), the write carries the last value, and no call carries an
\* earlier, different value of the key.
C10_LastValueWins ==
    (fileExists /\ pc \notin {"parse", "lines"}) =>
        LET E == EntryLines(content)
            K == [j \in E |-> KeyAt(content, j)]
            V == [j \in E |-> ValueAt(content, j)]
        IN  \A i \in E :
                LET same == {j \in E : K[j] = K[i]}
                    first == Min(same)
                    last == Max(same)
                    pos == Cardinality({K[j] : j \in {x \in E : x <= first}})
                    name == ItemName(target, K[i])
                IN  /\ pos <= Len(env_vars)
                    /\ env_vars[pos] = [key |-> K[i], value |-> V[last]]
                    /\ \A q \in 1..Len(env_vars) : env_vars[q].key = K[i] => q = pos
                    /\ Cardinality(CallsFor(name, IsCheck)) <= 1
                    /\ pc = "done" => Cardinality(CallsFor(name, IsCheck)) = 1
                    /\ Cardinality(CallsFor(name, IsWrite)) <= 1
                    /\ \A c \in CallsFor(name, IsWrite) :
                           calls[c].Value = Payload(target, K[i], V[last])
                    /\ \A j \in same, c \in 1..Len(calls) :
                           V[j] # V[last] => calls[c].Value # Payload(target, K[i], V[j])

C10_Witness ==
    /\ pc = "done"
    /\ Len(content) = 3
    /\ EntryLines(content) = {1, 2, 3}
    /\ KeyAt(content, 1) = KeyAt(content, 3)
    /\ KeyAt(content, 2) # KeyAt(content, 1)
    /\ ValueAt(content, 1) # ValueAt(content, 3)
    /\ Len(env_vars) = 2
    /\ \A r \in 1..Len(reports) : reports[r].kind = "pushed"

\* C4: when the file does not exist or parsing yields an empty mapping, no
\* session is created and no SDK call is issued, the dispatchers are never
\* entered, and the run can only end by the fatal exit.
C4_FatalBeforeNetwork ==
    (~fileExists \/ ParseResult(content) = <<>>) =>
        /\ session = "none"
        /\ calls = <<>>
        /\ pc \in {"parse", "lines", "parsed", "exited"}
        /\ pc = "exited" => exitCode = 1
        /\ pc = "parsed" => ENABLED MainNoVars /\ ~ENABLED MainPush

C4_Witness ==
    /\ pc = "exited"
    /\ fileExists
    /\ Len(content) >= 2
    /\ warnings # <<>>
    /\ env_vars = <<>>
    /\ session = "none"

\* an update: put_parameter with Overwrite, or update_secret
IsUpdate(c) == (c.op = "put_parameter" /\ c.Overwrite) \/ c.op = "update_secret"
\* a create: put_parameter without Overwrite, or create_secret
IsCreate(c) == (c.op = "put_parameter" /\ ~c.Overwrite) \/ c.op = "create_secret"

\* the tag set of a create
FixedTagSet ==
    { [Key |-> "Source", Value |-> <<".", "e", "n", "v">>],
      [Key |-> "Profile", Value |-> ProfileName],
      [Key |-> "Tag", Value |-> TagArg] }

TagSetOf(c) == {c.Tags[t] : t \in 1..Len(c.Tags)}

\* the positions in env_vars of the item a call is about
ItemsOf(c) == {i \in 1..Len(env_vars) : c.Name = ItemName(target, env_vars[i].key)}

\* C1: in both dispatchers a write is issued right after the existence check of
\* the same item and carries the item's value; after a check that succeeded it
\* is an update without tags, after a check that answered "not found" it is a
\* create with the fixed tag set; every check that did not fail is followed by
\* its write; and the check answers from the content of the store.
C1_UpdateIfExistsElseCreate ==
    \A j \in 1..Len(calls) :
        /\ IsWrite(calls[j]) =>
              /\ j > 1
              /\ IsCheck(calls[j - 1])
              /\ calls[j - 1].Name = calls[j].Name
              /\ calls[j - 1].result \in {"ok", "notfound"}
              /\ ItemsOf(calls[j]) # {}
              /\ \A i \in ItemsOf(calls[j]) :
                     calls[j].Value = Payload(target, env_vars[i].key, env_vars[i].value)
              /\ calls[j - 1].result = "ok" =>
                     IsUpdate(calls[j]) /\ ~IsCreate(calls[j]) /\ calls[j].Tags = <<>>
              /\ calls[j - 1].result = "notfound" =>
                     /\ IsCreate(calls[j]) /\ ~IsUpdate(calls[j])
                     /\ Len(calls[j].Tags) = 3
                     /\ TagSetOf(calls[j]) = FixedTagSet
              /\ calls[j].op \in (IF target = "ssm" THEN {"put_parameter"}
                                  ELSE {"update_secret", "create_secret"})
        /\ (IsCheck(calls[j]) /\ calls[j].result # "error") =>
              /\ j = Len(calls) => pc = "write"
              /\ j < Len(calls) => IsWrite(calls[j + 1])
              /\ calls[j].result = "ok" => calls[j].Name \in DOMAIN store
              /\ (calls[j].result = "notfound" /\ (j = Len(calls) \/ calls[j + 1].result = "error"))
                     => calls[j].Name \notin DOMAIN store

C1_Witness ==
    /\ pc = "done"
    /\ target = "secretsmanager"
    /\ \E j, k \in 2..Len(calls) :
          /\ calls[j - 1].result = "ok" /\ IsUpdate(calls[j]) /\ calls[j].result = "ok"
          /\ calls[k - 1].result = "notfound" /\ IsCreate(calls[k]) /\ calls[k].result = "ok"

\* a call about item i raised an error
ItemFailed(i) ==
    \E c \in 1..Len(calls) : i \in ItemsOf(calls[c]) /\ calls[c].result = "error"

\* C2: a failing existence check or write does not abort the run: while the
\* loop runs it can always take its next step and never ends by the fatal exit;
\* the items attempted so far are reported one by one in mapping order, a
\* failing item as failed and every other item as pushed after a check and a
\* successful write that left its value in the store; when the loop is over all
\* items have been attempted.
C2_FailuresDoNotAbort ==
    /\ calls # <<>> => pc \in {"loop", "write", "done"}
    /\ pc \in {"loop", "write"} => ENABLED Next
    /\ pc \in {"loop", "write", "done"} =>
          /\ Len(reports) = (IF pc = "done" THEN Len(env_vars) ELSE idx - 1)
          /\ \A i \in 1..Len(reports) :
                LET name == ItemName(target, env_vars[i].key)
                IN  /\ reports[i].name = name
                    /\ reports[i].kind = (IF ItemFailed(i) THEN "failed" ELSE "pushed")
                    /\ reports[i].kind = "pushed" =>
                          /\ \E c \in CallsFor(name, IsCheck) : calls[c].result # "error"
                          /\ \E c \in CallsFor(name, IsWrite) : calls[c].result = "ok"
                          /\ name \in DOMAIN store
                          /\ store[name].Value = Payload(target, env_vars[i].key, env_vars[i].value)

C2_Witness ==
    /\ pc = "done"
    /\ Len(reports) = 3
    /\ reports[1].kind = "failed" /\ IsCheck(calls[1]) /\ calls[1].result = "error"
    /\ reports[2].kind = "pushed"
    /\ reports[3].kind = "failed" /\ IsWrite(calls[Len(calls)])

\* C3: the exit status is 1 exactly in the runs where the file is missing, the
\* mapping is empty or the session or client setup fails; every other run ends
\* with status 0, whatever the number of items that failed.
C3_ExitCode ==
    /\ pc = "exited" =>
          /\ exitCode = 1
          /\ ~fileExists \/ env_vars = <<>> \/ session = "failed"
    /\ pc = "done" =>
          /\ exitCode = 0
          /\ fileExists /\ env_vars # <<>> /\ session = "ok"
    /\ pc \notin {"exited", "done"} => exitCode = -1
    /\ pc \in {"parsed", "setup", "loop", "write"} => ENABLED Next
    /\ pc = "lines" => line_num <= Len(content)
    /\ (~fileExists \/ session = "failed" \/ ParseResult(content) = <<>>) => pc # "done"

C3_Witness ==
    /\ pc = "done"
    /\ exitCode = 0
    /\ Len(reports) >= 2
    /\ \A r \in 1..Len(reports) : reports[r].kind = "failed"

\* the lower-cased key contains "password", "secret", "key" or "token"
KeySensitive(key) ==
    \E m \in { <<"p", "a", "s", "s", "w", "o", "r", "d">>, <<"s", "e", "c", "r", "e", "t">>,
               <<"k", "e", "y">>, <<"t", "o", "k", "e", "n">> } :
        IsSubstring(m, Lower(key))

\* C5 as stated: in both dispatchers the item written for a key is marked
\* sensitive if and only if the lower-cased key contains a marker.
C5_SensitiveInBothVariants ==
    \A j \in 1..Len(calls) :
        IsWrite(calls[j]) =>
            \A i \in ItemsOf(calls[j]) :
                (calls[j].Type = "SecureString") <=> KeySensitive(env_vars[i].key)

\* C5 as amended: push_to_ssm writes a parameter of Type SecureString if and only
\* if the lower-cased key contains a marker, and of Type String otherwise, on
\* the create path and on the update path alike, and a successful write leaves
\* that Type in the store; push_to_secrets_manager classifies nothing: its
\* writes carry no type.
C5_SensitiveInSsmOnly ==
    \A j \in 1..Len(calls) :
        IsWrite(calls[j]) =>
            \A i \in ItemsOf(calls[j]) :
                IF target = "ssm"
                THEN /\ calls[j].Type = (IF KeySensitive(env_vars[i].key) THEN "SecureString" ELSE "String")
                     /\ calls[j].result = "ok" => store[calls[j].Name].Type = calls[j].Type
                ELSE calls[j].Type = "absent"

C5_Witness ==
    /\ target = "ssm"
    /\ \E j, k, l \in 1..Len(calls) :
          /\ IsUpdate(calls[j]) /\ calls[j].Type = "SecureString" /\ IsWrite(calls[j])
          /\ IsCreate(calls[k]) /\ calls[k].Type = "SecureString" /\ IsWrite(calls[k])
          /\ IsWrite(calls[l]) /\ calls[l].Type = "String"

\* the number of existence checks among the first j calls
RECURSIVE ChecksUpTo(_)
ChecksUpTo(j) ==
    IF j = 0 THEN 0 ELSE ChecksUpTo(j - 1) + (IF IsCheck(calls[j]) THEN 1 ELSE 0)

\* C8: the items are processed one after the other in mapping order: the n-th
\* existence check is for the n-th key, keys are distinct, a write comes right
\* after the check of its own item (so at most one write per check, and no call
\* for a later item in between), nothing else is called, and when the loop is
\* over there has been exactly one check per key.
C8_SequentialOncePerKey ==
    /\ \A a, b \in 1..Len(env_vars) : env_vars[a].key = env_vars[b].key => a = b
    /\ \A j \in 1..Len(calls) :
          /\ IsCheck(calls[j]) \/ IsWrite(calls[j])
          /\ IsCheck(calls[j]) =>
                /\ ChecksUpTo(j) <= Len(env_vars)
                /\ calls[j].Name = ItemName(target, env_vars[ChecksUpTo(j)].key)
          /\ IsWrite(calls[j]) =>
                /\ j > 1
                /\ IsCheck(calls[j - 1])
                /\ calls[j - 1].Name = calls[j].Name
          /\ calls[j].result \in {"ok", "notfound", "error"}
    /\ pc \in {"loop", "write"} =>
          ChecksUpTo(Len(calls)) = (IF pc = "write" THEN idx ELSE idx - 1)
    /\ pc = "done" => ChecksUpTo(Len(calls)) = Len(env_vars)

C8_Witness ==
    /\ pc = "done"
    /\ Len(env_vars) = 3
    /\ Len(calls) = 6

\* the last call issued in the next state
LastCall == calls'[Len(calls')]

C9_NoWriteAfterFailedCheck ==
    \A j \in 1..Len(calls) :
        /\ (IsCheck(calls[j]) /\ calls[j].result = "error") =>
              /\ CallsFor(calls[j].Name, IsWrite) = {}
              /\ Cardinality({r \in 1..Len(reports) : reports[r].name = calls[j].Name}) = 1
              /\ \A r \in 1..Len(reports) :
                     reports[r].name = calls[j].Name => reports[r].kind = "failed"
              /\ pc \in {"loop", "write", "done"}
        /\ IsCreate(calls[j]) /\ IsWrite(calls[j]) =>
              j > 1 /\ calls[j - 1].result = "notfound"

C9_FailedCheckStep ==
    (Len(calls') = Len(calls) + 1 /\ IsCheck(LastCall) /\ LastCall.result = "error") =>
        /\ store' = store
        /\ reports' = Append(reports, Report("failed", LastCall.Name))
        /\ idx' = idx + 1
        /\ pc' = "loop"
        /\ LastCall.Name = ItemName(target, env_vars[idx].key)

\* C9: only "not found" counts as non-existence: a create is issued only after
\* a check that answered "not found"; when the check of a key fails with another
\* error, that step leaves the store unchanged, reports the key as failed and
\* moves the loop to the next key, and no write is ever issued for the key nor
\* is it ever reported as pushed.
C9_OtherErrorsAreFailures ==
    [](C9_NoWriteAfterFailedCheck /\ (pc = "loop" => ENABLED Next))
        /\ [][C9_FailedCheckStep]_vars

C9_Witness ==
    /\ pc = "done"
    /\ Len(calls) >= 3
    /\ IsCheck(calls[1]) /\ calls[1].result = "error"
    /\ calls[1].Name \in DOMAIN store
    /\ store[calls[1].Name] = OldEntry
    /\ calls[3].result = "ok"

====
